---- MODULE Spec2Model ----
(***************************************************************************)
(* A model of the monkey-rs front end: the character-level tokenizer       *)
(* (src/src/lexer.rs, src/src/tokens.rs), the let-statement parser          *)
(* (src/src/parser/mod.rs) and the interactive loop (src/src/repl.rs).      *)
(*                                                                         *)
(* Source text is a sequence of one-character strings.  A token literal is *)
(* such a sequence too.  The character '\0' is the string NUL.             *)
(***************************************************************************)
EXTENDS Integers, Sequences, FiniteSets, TLC

VARIABLES
    src,              \* the text the tokenizer borrows (Lexer::new's argument)
    overflow_checks,  \* build profile: TRUE = usize underflow panics, FALSE = wraps
    iter,             \* Lexer.iter: the characters of src not yet taken
    curr,             \* Lexer.curr
    complete,         \* Lexer.complete
    line,             \* Lexer.line
    col,              \* Lexer.col
    panicked,         \* the thread has panicked (arithmetic overflow)
    yielded,          \* history: the items Lexer::next has returned as Some(..)
    exhausted,        \* history: number of times Lexer::next has returned None
    driver,           \* who pulls the tokens: "repl" or "parser"
    peeked,           \* Peekable.peeked of Parser.lexer
    pc,               \* position of Parser::parse
    start,            \* parse_let_statement's `start` token
    id,               \* parse_let_statement's `id` token
    statements,       \* Program.statements
    errors,           \* Program.errors
    consumed          \* history: the tokens Parser::next has handed out

lexvars == <<iter, curr, complete, line, col>>
parservars == <<peeked, pc, start, id, statements, errors, consumed>>
vars == <<src, overflow_checks, iter, curr, complete, line, col, panicked,
          yielded, exhausted, driver, peeked, pc, start, id, statements,
          errors, consumed>>

(***************************************************************************)
(* Bounds of the model.                                                    *)
(***************************************************************************)
\* longest source text enumerated character by character
MaxLen == 3
\* most fragments concatenated into a statement-level source text
MaxFrags == 2
\* width of usize in the model (the arithmetic is the same at 64 bits; no
\* source text of the model is long enough to reach the modulus by counting)
UsizeBits == 16
\* most items recorded in `yielded`: more than the scan of any source text
\* of the model produces when it ends (a fragment makes at most 8 tokens,
\* the longest named text 16)
MaxYield == 8 * MaxFrags + MaxLen

\* most times in a row the same item is recorded in `yielded` (a Lexer that
\* yields an item and stays as it was yields that item for ever)
MaxRepeat == 3

UsizeMod == 2 ^ UsizeBits

NUL == "NUL"

(***************************************************************************)
(* Character classes.                                                      *)
(***************************************************************************)
Digits == {"0", "1", "2", "3", "4", "5", "6", "7", "8", "9"}

Letters == {"a", "b", "c", "d", "e", "f", "g", "h", "i", "j", "k", "l", "m",
            "n", "o", "p", "q", "r", "s", "t", "u", "v", "w", "x", "y", "z",
            "A", "B", "C", "D", "E", "F", "G", "H", "I", "J", "K", "L", "M",
            "N", "O", "P", "Q", "R", "S", "T", "U", "V", "W", "X", "Y", "Z"}

\* char::is_ascii_whitespace: space, tab, line feed, form feed, carriage return
is_ascii_whitespace(c) == c \in {" ", "\t", "\n", "\f", "\r"}

is_ascii_digit(c) == c \in Digits

\* char::is_alphanumeric restricted to ASCII, or '_'
legal_identifier_char(c) == c \in Letters \cup Digits \cup {"_"}

(***************************************************************************)
(* tokens.rs                                                               *)
(***************************************************************************)
TokenType == {"Illegal", "EOF", "Identifier", "Int", "Float", "Assign", "Plus",
              "Subtract", "Divide", "Multiply", "Greater", "GreaterEqual",
              "Less", "LessEqual", "Not", "EqualEqual", "NotEqual", "Comma",
              "SemiColon", "LParen", "RParen", "LBrace", "RBrace", "Function",
              "Let", "True", "False", "If", "Else", "Return"}

\* Token::new
Token(typ, lit, ln, cl) == [typ |-> typ, literal |-> lit, loc |-> [line |-> ln, col |-> cl]]

\* Token::from_keyword: the keyword kind of s, or "None"
keyword_type(s) ==
    CASE s = <<"l", "e", "t">> -> "Let"
      [] s = <<"f", "n">> -> "Function"
      [] s = <<"i", "f">> -> "If"
      [] s = <<"e", "l", "s", "e">> -> "Else"
      [] s = <<"r", "e", "t", "u", "r", "n">> -> "Return"
      [] s = <<"t", "r", "u", "e">> -> "True"
      [] s = <<"f", "a", "l", "s", "e">> -> "False"
      [] OTHER -> "None"

(***************************************************************************)
(* usize subtraction: a - b panics on underflow when the build checks      *)
(* overflow and wraps modulo 2^UsizeBits when it does not.                 *)
(***************************************************************************)
usize_underflows(a, b) == a < b

usize_sub(a, b) == IF a >= b THEN a - b ELSE a - b + UsizeMod

(***************************************************************************)
(* lexer.rs.  A Lexer value is the record                                  *)
(*   [iter, curr, complete, line, col].                                    *)
(* A scanning function returns [tok, l, panic, rest]: the token, the Lexer *)
(* afterwards, whether a checked subtraction underflowed on the way, and   *)
(* (history) how many characters iter held when the scan met the token's   *)
(* first character.                                                        *)
(***************************************************************************)
TheLexer == [iter |-> iter, curr |-> curr, complete |-> complete,
             line |-> line, col |-> col]

\* Lexer::read_char
read_char(l) ==
    LET c == IF l.iter # <<>> THEN Head(l.iter) ELSE NUL
    IN  [l EXCEPT !.iter = IF l.iter # <<>> THEN Tail(l.iter) ELSE <<>>,
                  !.curr = c,
                  !.line = IF c = "\n" THEN l.line + 1 ELSE l.line,
                  !.col  = IF c = "\n" THEN 0 ELSE l.col + 1]

\* peek_char as it would be if it looked at the current character
peek_char_current(l) == l.curr

\* Lexer::peek_char
peek_char(l) == IF l.iter # <<>> THEN Head(l.iter) ELSE NUL

\* Lexer::new
NewLexer(text) ==
    read_char([iter |-> text, curr |-> NUL, complete |-> FALSE, line |-> 1, col |-> 0])

RECURSIVE skip_whitespace(_)
\* Lexer::skip_whitespace
skip_whitespace(l) ==
    IF is_ascii_whitespace(l.curr) THEN skip_whitespace(read_char(l)) ELSE l

\* skip_to_next_line as it would be if it skipped the two slashes only
skip_to_next_line_slashes(l) == read_char(read_char(l))

RECURSIVE skip_to_next_line(_)
\* Lexer::skip_to_next_line
skip_to_next_line(l) ==
    IF l.curr # "\n" /\ l.curr # NUL THEN skip_to_next_line(read_char(l)) ELSE l

\* Lexer::new_token: the token and whether col - literal.len() underflowed
new_token(l, typ, literal) ==
    [tok   |-> Token(typ, literal, l.line, usize_sub(l.col, Len(literal))),
     l     |-> l,
     panic |-> usize_underflows(l.col, Len(literal)),
     rest  |-> 0]

\* `t.loc.col -= 1` applied to the result r of new_token / from_keyword
col_minus_one(r) ==
    [r EXCEPT !.tok.loc.col = usize_sub(r.tok.loc.col, 1),
              !.panic = r.panic \/ usize_underflows(r.tok.loc.col, 1)]

RECURSIVE read_number_loop(_, _, _)
\* the while loop of Lexer::read_number and what follows it
read_number_loop(l, has_point, literal) ==
    IF is_ascii_digit(l.curr) \/ l.curr = "."
    THEN IF l.curr = "." /\ has_point
         THEN new_token(l, "Illegal", literal \o <<".">>)
         ELSE read_number_loop(read_char(l),
                               has_point \/ l.curr = ".",
                               Append(literal, l.curr))
    ELSE IF literal = <<>>
         THEN new_token(l, "Illegal", <<l.curr>>)
         ELSE col_minus_one(new_token(l, IF has_point THEN "Float" ELSE "Int", literal))

\* Lexer::read_number
read_number(l) == read_number_loop(l, FALSE, <<>>)

\* the keyword/identifier token of Lexer::read_identifier for a non-empty literal
identifier_token(l, literal) ==
    IF keyword_type(literal) # "None"
    THEN [tok   |-> Token(keyword_type(literal), literal, l.line,
                          usize_sub(l.col, Len(literal))),
          l     |-> l,
          panic |-> usize_underflows(l.col, Len(literal)),
          rest  |-> 0]
    ELSE new_token(l, "Identifier", literal)

RECURSIVE read_identifier_loop(_, _)
\* the while loop of Lexer::read_identifier and what follows it
read_identifier_loop(l, literal) ==
    IF legal_identifier_char(l.curr)
    THEN read_identifier_loop(read_char(l), Append(literal, l.curr))
    ELSE IF literal = <<>>
         THEN new_token(l, "Illegal", <<l.curr>>)
         ELSE col_minus_one(identifier_token(l, literal))

\* Lexer::read_identifier
read_identifier(l) == read_identifier_loop(l, <<>>)

\* the two-character operator that c followed by '=' makes, and c alone
TwoCharType(c) ==
    CASE c = "=" -> "EqualEqual"
      [] c = "!" -> "NotEqual"
      [] c = ">" -> "GreaterEqual"
      [] c = "<" -> "LessEqual"

OneCharType(c) ==
    CASE c = "=" -> "Assign"
      [] c = "!" -> "Not"
      [] c = ">" -> "Greater"
      [] c = "<" -> "Less"
      [] c = "/" -> "Divide"
      [] c = "," -> "Comma"
      [] c = ";" -> "SemiColon"
      [] c = "+" -> "Plus"
      [] c = "-" -> "Subtract"
      [] c = "*" -> "Multiply"
      [] c = "{" -> "LBrace"
      [] c = "}" -> "RBrace"
      [] c = "(" -> "LParen"
      [] c = ")" -> "RParen"

SymbolChars == {"=", "!", ">", "<", "/", ",", ";", "+", "-", "*", "{", "}", "(", ")"}

\* the tail of Lexer::next_token for a symbol: new_token, then read_char
symbol_token(l, typ, literal) ==
    LET r == new_token(l, typ, literal) IN [r EXCEPT !.l = read_char(l)]

RECURSIVE next_token(_)
\* Lexer::next_token
next_token(l0) ==
    LET l == skip_whitespace(l0)
        c == l.curr
    IN  IF c = NUL
        THEN new_token([l EXCEPT !.complete = TRUE], "EOF", <<>>)
        ELSE IF c \in {"=", "!", ">", "<"}
        THEN IF peek_char(l) = "="
             THEN [symbol_token(read_char(l), TwoCharType(c), <<c, "=">>) EXCEPT !.rest = Len(l.iter)]
             ELSE [symbol_token(l, OneCharType(c), <<c>>) EXCEPT !.rest = Len(l.iter)]
        ELSE IF c = "/" /\ peek_char(l) = "/"
        THEN next_token(skip_to_next_line(l))
        ELSE IF c \in SymbolChars
        THEN [symbol_token(l, OneCharType(c), <<c>>) EXCEPT !.rest = Len(l.iter)]
        ELSE IF is_ascii_digit(c) \/ c = "."
        THEN [read_number(l) EXCEPT !.rest = Len(l.iter)]
        ELSE [read_identifier(l) EXCEPT !.rest = Len(l.iter)]

\* the value Lexer::next returns when the Lexer is exhausted
None == [typ |-> "None"]

\* next as it would be without the test of `complete`
lexer_next_unguarded(l) == next_token(l)

\* <Lexer as Iterator>::next
lexer_next(l) ==
    IF ~l.complete
    THEN next_token(l)
    ELSE [tok |-> None, l |-> l, panic |-> FALSE, rest |-> 0]

(***************************************************************************)
(* Source texts of the model.                                              *)
(***************************************************************************)
\* the characters of the texts enumerated character by character
Alphabet == {"=", "!", "<", ">", "5", ".", "x", "@", " ", "\n", "/", ";"}

\* every text over Alphabet of at most MaxLen characters
CharSources == UNION {[1..n -> Alphabet] : n \in 0..MaxLen}

kw_let == <<"l", "e", "t">>
sp == <<" ">>

\* well-formed statements `let IDENT = <tokens without ';'> ;`, each with
\* the text of its identifier
GoodStatements ==
    { [text  |-> kw_let \o sp \o <<"x", " ", "=", " ", "5", ";">>,       \* let x = 5;
       ident |-> <<"x">>],
      [text  |-> kw_let \o sp \o <<"y", "=", "1", "0", ";", " ">>,       \* let y=10;_
       ident |-> <<"y">>],
      [text  |-> kw_let \o sp \o <<"_", "l", "e", "t", " ", "=", "1", ".", "2", ".", "3", ">", "=", "x", ";">>,
       ident |-> <<"_", "l", "e", "t">>],                                \* let _let =1.2.3>=x;
      [text  |-> kw_let \o sp \o <<"f", "n", "1", "=", "x", "\n", "+", "1", ";">>,
       ident |-> <<"f", "n", "1">>] }                                    \* let fn1=x\n+1;

\* statements that end in ';' and miss a part, and a stray expression,
\* each with the messages of the errors it raises
BadStatements ==
    { [text     |-> kw_let \o sp \o <<"=", " ", "5", ";">>,              \* let = 5;
       messages |-> << <<"expected a '", "Identifier", "' token but got '", "Assign", "'">>,
                       <<"unexpected token: ", "Int">>,
                       <<"unexpected token: ", "SemiColon">> >>],
      [text     |-> kw_let \o sp \o <<"x", " ", "5", ";">>,              \* let x 5;
       messages |-> << <<"expected a '", "Assign", "' token but got '", "Int", "'">>,
                       <<"unexpected token: ", "SemiColon">> >>],
      [text     |-> <<"x", ";">>,                                        \* x;
       messages |-> << <<"unexpected token: ", "Identifier">>,
                       <<"unexpected token: ", "SemiColon">> >>] }

\* pieces that swallow what follows them or never end
OtherFragments ==
    { kw_let \o sp \o <<"x", " ", "=", " ", "5", " ">>,                  \* let x = 5_
      kw_let \o sp \o <<"x", "=", "@", ";">>,                            \* let x=@;
      <<"/", "/", "c", "\n">>,                                           \* //c\n
      <<"/", "/", "c">> }                                                \* //c

GoodTexts == {g.text : g \in GoodStatements}

BadTexts == {b.text : b \in BadStatements}

Fragments == GoodTexts \cup BadTexts \cup OtherFragments

RECURSIVE Concat(_)
\* the concatenation of a sequence of texts
Concat(ss) == IF ss = <<>> THEN <<>> ELSE Head(ss) \o Concat(Tail(ss))

\* every concatenation of at most MaxFrags fragments
FragSources == {Concat(fs) : fs \in UNION {[1..n -> Fragments] : n \in 0..MaxFrags}}

\* the texts the specification and the tests name
Src_1_2_3 == <<"1", ".", "2", ".", "3">>
Src_EqEq == <<"=", "=">>
Src_let_eq_5 == kw_let \o sp \o <<"=", " ", "5", ";">>
Src_two_lets == kw_let \o sp \o <<"x", " ", "=", " ", "5", ";", " ">>
                \o kw_let \o sp \o <<"y", " ", "=", " ", "1", "0", ";">>
Src_no_semi == kw_let \o sp \o <<"x", " ", "=", " ", "5", " ">>
               \o kw_let \o sp \o <<"y", " ", "=", " ", "1", "0", ";">>
Src_test_parse == <<"\n", " ">> \o kw_let \o sp \o <<"x", " ", "=", " ", "5", ";", "\n", " ">>
                  \o kw_let \o sp \o <<"y", " ", "=", " ", "1", "0", ";", "\n", " ">>
                  \o kw_let \o sp \o <<"f", "o", "o", "b", "a", "r", " ", "=", " ", "8", "3", ";">>

\* a failing statement between two well-formed ones: let x = 5;let x 5;let y = 10;
Src_good_bad_good == kw_let \o sp \o <<"x", " ", "=", " ", "5", ";">>
                     \o kw_let \o sp \o <<"x", " ", "5", ";">>
                     \o kw_let \o sp \o <<"y", " ", "=", " ", "1", "0", ";">>

\* a comment between two tokens and a comment that the end of the text cuts:
\* x //c\n= //c
Src_comments == <<"x", " ", "/", "/", "c", "\n", "=", " ", "/", "/", "c">>

\* a let-statement that the end of the text cuts after the '=': let x = 5_
Src_let_unfinished == kw_let \o sp \o <<"x", " ", "=", " ", "5", " ">>

\* the keywords of Token::from_keyword and runs that only contain one
Words ==
    { kw_let, <<"f", "n">>, <<"i", "f">>, <<"e", "l", "s", "e">>,
      <<"r", "e", "t", "u", "r", "n">>, <<"t", "r", "u", "e">>,
      <<"f", "a", "l", "s", "e">>,
      <<"l", "e", "t", "x">>, <<"i", "f", "f", "y">>, <<"_", "l", "e", "t">>,
      <<"L", "e", "t">>, <<"f", "n", "1">> }

\* each word at the end of the text, before a line feed, before a symbol
\* and after a digit and a point
WordSources ==
    {w \o t : w \in Words, t \in {<<>>, <<"\n">>, <<";">>}}
    \cup {<<"1", ".">> \o w : w \in Words}

NamedSources == {Src_1_2_3, Src_EqEq, Src_let_eq_5, Src_two_lets, Src_no_semi,
                 Src_test_parse, Src_good_bad_good, Src_comments,
                 Src_let_unfinished}

Sources == CharSources \cup FragSources \cup NamedSources \cup WordSources

\* lines BufRead::read_line delivers after the first one: a text without a
\* line feed, ended by the line feed the user typed (or by nothing at the
\* end of the input)
Lines == {<<>>, <<"\n">>, <<"5", "\n">>, <<"x", "\n">>, <<"@", "\n">>, <<"=", "=", "\n">>,
          Src_1_2_3 \o <<"\n">>, Src_two_lets \o <<"\n">>, Src_two_lets}

(***************************************************************************)
(* The state before any text is read: no Lexer and no Parser exist yet.    *)
(***************************************************************************)
NoToken == [typ |-> "NoToken"]

NoLexer ==
    /\ src = <<>>
    /\ iter = <<>>
    /\ curr = NUL
    /\ complete = FALSE
    /\ line = 1
    /\ col = 0
    /\ panicked = FALSE
    /\ yielded = <<>>
    /\ exhausted = 0

NoParser ==
    /\ peeked = <<>>
    /\ start = NoToken
    /\ id = NoToken
    /\ statements = <<>>
    /\ errors = <<>>
    /\ consumed = <<>>

\* Lexer::new(text): a fresh Lexer, nothing yielded yet
ConstructLexer(text) ==
    LET l == NewLexer(text)
    IN  /\ src' = text
        /\ iter' = l.iter
        /\ curr' = l.curr
        /\ complete' = l.complete
        /\ line' = l.line
        /\ col' = l.col
        /\ yielded' = <<>>
        /\ exhausted' = 0

\* main calls repl::start
Init ==
    /\ NoLexer
    /\ NoParser
    /\ overflow_checks \in BOOLEAN
    /\ driver = "repl"
    /\ pc = "start"

(***************************************************************************)
(* One call of <Lexer as Iterator>::next, with result r.                   *)
(***************************************************************************)
\* the last MaxRepeat items yielded are the same item
Repeating ==
    /\ Len(yielded) >= MaxRepeat
    /\ \A k \in 1..(MaxRepeat - 1) : yielded[Len(yielded) - k] = yielded[Len(yielded)]

\* the histories have room for the result of one more call
CallGuard == Len(yielded) < MaxYield /\ ~Repeating

\* the call panics: a subtraction underflowed and the build checks overflow
Panics(r) == r.panic /\ overflow_checks

\* the Lexer fields and the histories after the call returned r
LexerReturns(r) ==
    /\ iter' = r.l.iter
    /\ curr' = r.l.curr
    /\ complete' = r.l.complete
    /\ line' = r.l.line
    /\ col' = r.l.col
    /\ IF r.tok = None
       THEN /\ yielded' = yielded
            /\ exhausted' = exhausted + 1
       ELSE /\ yielded' = Append(yielded, [tok |-> r.tok, at |-> Len(src) - r.rest])
            /\ exhausted' = exhausted

(***************************************************************************)
(* repl.rs: pc is "start" before the first turn of `loop`, "for" inside    *)
(* the for loop over the Lexer and "read_line" at the head of a later turn.*)
(***************************************************************************)
\* a turn of `loop` up to the for loop: read a line, build a Lexer over it.
\* The first line is any text of the model, a later one is one of Lines.
ReplReadLine ==
    /\ driver = "repl"
    /\ pc \in {"start", "read_line"}
    /\ ~panicked
    /\ \E text \in (IF pc = "start" THEN Sources ELSE Lines) : ConstructLexer(text)
    /\ pc' = "for"
    /\ UNCHANGED <<overflow_checks, panicked, driver, peeked, start, id,
                   statements, errors, consumed>>

\* `for i in l { write!(writer, ..) }`: one call of next; an item is written
\* and the loop goes on, None ends the loop
ReplNext ==
    /\ driver = "repl"
    /\ pc = "for"
    /\ ~panicked
    /\ CallGuard
    /\ LET r == lexer_next(TheLexer)
       IN  IF Panics(r)
           THEN /\ panicked' = TRUE
                /\ UNCHANGED <<lexvars, yielded, exhausted, pc>>
           ELSE /\ LexerReturns(r)
                /\ panicked' = FALSE
                /\ pc' = IF r.tok = None THEN "read_line" ELSE "for"
    /\ UNCHANGED <<src, overflow_checks, driver, peeked, start, id,
                   statements, errors, consumed>>

(***************************************************************************)
(* parser/mod.rs.  Parser.lexer is a Peekable<Lexer>: `peeked` is <<>>     *)
(* when nothing is buffered and <<item>> when an item (a token or None) is.*)
(* An Option<TokenLoc> is <<>> or <<loc>>.  A message is the sequence of   *)
(* the pieces format! joins.                                               *)
(***************************************************************************)
\* the test harness is about to build a Lexer and a Parser
ParserInit ==
    /\ NoLexer
    /\ NoParser
    /\ overflow_checks \in BOOLEAN
    /\ driver = "parser"
    /\ pc = "new"

\* Parser::new(Lexer::new(text)): parse() is about to run
new ==
    /\ driver = "parser" /\ pc = "new"
    /\ \E text \in Sources : ConstructLexer(text)
    /\ pc' = "loop"
    /\ UNCHANGED <<overflow_checks, panicked, driver, peeked, start, id,
                   statements, errors, consumed>>

\* the error of Parser::next as it would be if it blamed the start of the text
EndOfInputError_located ==
    [message |-> <<"Unexpected end of input">>, loc |-> <<[line |-> 1, col |-> 0]>>]

\* ParseError of Parser::next and Parser::peek
EndOfInputError == [message |-> <<"Unexpected end of input">>, loc |-> <<>>]

\* the error of parse_statement as it would be if it named the literal
UnexpectedTokenError_literal(tok) ==
    [message |-> <<"unexpected token: ", tok.literal>>, loc |-> <<tok.loc>>]

\* ParseError of Parser::parse_statement
UnexpectedTokenError(tok) ==
    [message |-> <<"unexpected token: ", tok.typ>>, loc |-> <<tok.loc>>]

\* the error of expect_next with the expected and the actual kind swapped
ExpectedError_swapped(typ, tok) ==
    [message |-> <<"expected a '", tok.typ, "' token but got '", typ, "'">>,
     loc |-> <<tok.loc>>]

\* ParseError of Parser::expect_next
ExpectedError(typ, tok) ==
    [message |-> <<"expected a '", typ, "' token but got '", tok.typ, "'">>,
     loc |-> <<tok.loc>>]

\* Statement::LetStatement as parse_let_statement builds it
LetStatement(start_tok, id_tok) ==
    [token |-> start_tok,
     identifier |-> [value |-> id_tok.literal, token |-> id_tok],
     value |-> "Dummy"]

\* the item delivered as it would be if the Lexer were asked past the buffer
Pulled_past_buffer == lexer_next(TheLexer)

\* the item Peekable::peek and Peekable::next deliver: the buffered one, or
\* else the result of calling the Lexer
Pulled ==
    IF peeked # <<>>
    THEN [tok |-> peeked[1], l |-> TheLexer, panic |-> FALSE, rest |-> 0]
    ELSE lexer_next(TheLexer)

\* the Lexer is called only when nothing is buffered
PullGuard == peeked = <<>> => CallGuard

LexerAfterPull(r) ==
    IF peeked # <<>>
    THEN UNCHANGED <<lexvars, yielded, exhausted>>
    ELSE LexerReturns(r)

\* the call under way panics
ParserPanics ==
    /\ panicked' = TRUE
    /\ UNCHANGED <<lexvars, yielded, exhausted, parservars>>

\* Parser::next returned r.tok: the buffer is empty afterwards
Consume(r) ==
    /\ peeked' = <<>>
    /\ consumed' = IF r.tok = None THEN consumed ELSE Append(consumed, r.tok)

\* parse as it would be if it stopped at the first error
parse_fail_fast ==
    /\ driver = "parser" /\ pc = "loop" /\ ~panicked /\ PullGuard
    /\ LET r == Pulled
       IN  IF Panics(r)
           THEN ParserPanics
           ELSE /\ LexerAfterPull(r)
                /\ peeked' = <<r.tok>>
                /\ pc' = IF r.tok = None \/ r.tok.typ = "EOF" \/ errors # <<>>
                         THEN "done" ELSE "statement"
                /\ UNCHANGED <<panicked, start, id, statements, errors, consumed>>
    /\ UNCHANGED <<src, overflow_checks, driver>>

\* Parser::parse, the head of the while loop: peek, leave on None or EOF
parse ==
    /\ driver = "parser" /\ pc = "loop" /\ ~panicked /\ PullGuard
    /\ LET r == Pulled
       IN  IF Panics(r)
           THEN ParserPanics
           ELSE /\ LexerAfterPull(r)
                /\ peeked' = <<r.tok>>
                /\ pc' = IF r.tok = None \/ r.tok.typ = "EOF" THEN "done" ELSE "statement"
                /\ UNCHANGED <<panicked, start, id, statements, errors, consumed>>
    /\ UNCHANGED <<src, overflow_checks, driver>>

\* Parser::parse_statement up to the dispatch on the token kind; an Err goes
\* to program.errors in parse
parse_statement ==
    /\ driver = "parser" /\ pc = "statement" /\ ~panicked /\ PullGuard
    /\ LET r == Pulled
       IN  IF Panics(r)
           THEN ParserPanics
           ELSE /\ LexerAfterPull(r)
                /\ Consume(r)
                /\ IF r.tok = None
                   THEN /\ errors' = Append(errors, EndOfInputError)
                        /\ pc' = "loop"
                        /\ start' = start
                   ELSE IF r.tok.typ = "Let"
                   THEN /\ errors' = errors
                        /\ pc' = "let_identifier"
                        /\ start' = r.tok
                   ELSE /\ errors' = Append(errors, UnexpectedTokenError(r.tok))
                        /\ pc' = "loop"
                        /\ start' = start
                /\ UNCHANGED <<panicked, id, statements>>
    /\ UNCHANGED <<src, overflow_checks, driver>>

\* Parser::expect_next(typ) called from parse_let_statement at position at;
\* on Ok the token goes to `id` when keep holds and the parse moves to `to`
expect_next(at, typ, keep, to) ==
    /\ driver = "parser" /\ pc = at /\ ~panicked /\ PullGuard
    /\ LET r == Pulled
       IN  IF Panics(r)
           THEN ParserPanics
           ELSE /\ LexerAfterPull(r)
                /\ Consume(r)
                /\ IF r.tok = None
                   THEN /\ errors' = Append(errors, EndOfInputError)
                        /\ pc' = "loop"
                        /\ id' = id
                   ELSE IF r.tok.typ # typ
                   THEN /\ errors' = Append(errors, ExpectedError(typ, r.tok))
                        /\ pc' = "loop"
                        /\ id' = id
                   ELSE /\ errors' = errors
                        /\ pc' = to
                        /\ id' = IF keep THEN r.tok ELSE id
                /\ UNCHANGED <<panicked, start, statements>>
    /\ UNCHANGED <<src, overflow_checks, driver>>

\* parse_let_statement: `let id = self.expect_next(TokenType::Identifier)?`
let_identifier == expect_next("let_identifier", "Identifier", TRUE, "let_assign")

\* parse_let_statement: `self.expect_next(TokenType::Assign)?`
let_assign == expect_next("let_assign", "Assign", FALSE, "let_skip")

\* the skip loop as it would be if a `let` ended it as a ';' does
let_skip_to_let ==
    /\ driver = "parser" /\ pc = "let_skip" /\ ~panicked /\ PullGuard
    /\ LET r == Pulled
       IN  IF Panics(r)
           THEN ParserPanics
           ELSE /\ LexerAfterPull(r)
                /\ Consume(r)
                /\ IF r.tok = None
                   THEN /\ errors' = Append(errors, EndOfInputError)
                        /\ pc' = "loop"
                        /\ statements' = statements
                   ELSE IF r.tok.typ \in {"SemiColon", "Let"}
                   THEN /\ statements' = Append(statements, LetStatement(start, id))
                        /\ pc' = "loop"
                        /\ errors' = errors
                   ELSE /\ pc' = "let_skip"
                        /\ UNCHANGED <<statements, errors>>
                /\ UNCHANGED <<panicked, start, id>>
    /\ UNCHANGED <<src, overflow_checks, driver>>

\* parse_let_statement: one turn of `while self.next()?.typ != SemiColon {}`,
\* and on the semicolon the Ok(LetStatement) that parse pushes
let_skip ==
    /\ driver = "parser" /\ pc = "let_skip" /\ ~panicked /\ PullGuard
    /\ LET r == Pulled
       IN  IF Panics(r)
           THEN ParserPanics
           ELSE /\ LexerAfterPull(r)
                /\ Consume(r)
                /\ IF r.tok = None
                   THEN /\ errors' = Append(errors, EndOfInputError)
                        /\ pc' = "loop"
                        /\ statements' = statements
                   ELSE IF r.tok.typ = "SemiColon"
                   THEN /\ statements' = Append(statements, LetStatement(start, id))
                        /\ pc' = "loop"
                        /\ errors' = errors
                   ELSE /\ pc' = "let_skip"
                        /\ UNCHANGED <<statements, errors>>
                /\ UNCHANGED <<panicked, start, id>>
    /\ UNCHANGED <<src, overflow_checks, driver>>

ParserNext == new \/ parse \/ parse_statement \/ let_identifier \/ let_assign \/ let_skip

ParserSpec == ParserInit /\ [][ParserNext]_vars

Next == ReplReadLine \/ ReplNext

Spec == Init /\ [][Next]_vars

(***************************************************************************)
(* What the source text says, read without the tokenizer.                  *)
(***************************************************************************)
\* the line feeds of src before index i
LineFeedsBefore(i) == {j \in 1..(i - 1) : src[j] = "\n"}

\* 1-based line of the character at index i of src
LineOf(i) == 1 + Cardinality(LineFeedsBefore(i))

\* index of the last line feed before index i of src, 0 if there is none
LastLineFeedBefore(i) ==
    IF LineFeedsBefore(i) = {} THEN 0
    ELSE CHOOSE j \in LineFeedsBefore(i) : \A k \in LineFeedsBefore(i) : k <= j

\* 0-based column of the character at index i of src
ColOf(i) == i - 1 - LastLineFeedBefore(i)

\* the characters of src from index i, n of them
SrcAt(i, n) == [k \in 1..n |-> src[i + k - 1]]

\* kinds and literals of the items yielded so far
YieldedTypes == [k \in 1..Len(yielded) |-> yielded[k].tok.typ]
YieldedLiterals == [k \in 1..Len(yielded) |-> yielded[k].tok.literal]

(***************************************************************************)
(* C1                                                                      *)
(***************************************************************************)
\* C1: for every source text the scan ends with the end-of-input token
\* after finitely many calls of next.  next is a function of the Lexer
\* alone, so a scan that ends never takes a call that returns a token and
\* leaves the Lexer as it was: such a call repeats for ever.
C1_ScanReachesEOF ==
    [][(pc = "for" /\ ~complete /\ ~panicked') => lexvars' # lexvars]_vars

(***************************************************************************)
(* C2                                                                      *)
(***************************************************************************)
\* where Parser::parse is: its position, its locals, the token buffer and
\* the Lexer
ParserConfiguration == <<pc, peeked, start, id, iter, curr, complete, line, col>>

\* C2: for every token source Parser::parse terminates and returns a
\* Program.  A step of parse is a function of its configuration, so a
\* parse that returns never takes a step that leaves the configuration as
\* it was: such a step repeats for ever.
C2_ParseReturns ==
    [][(pc \notin {"new", "done"} /\ ~panicked') =>
            ParserConfiguration' # ParserConfiguration]_vars

(***************************************************************************)
(* C3                                                                      *)
(***************************************************************************)
\* C3: every token yielded other than EOF carries the 1-based line and the
\* 0-based column of the first character of its literal in the source.
C3_LocationIsFirstCharacter ==
    \A k \in 1..Len(yielded) :
        yielded[k].tok.typ # "EOF" =>
            /\ yielded[k].tok.loc.line = LineOf(yielded[k].at)
            /\ yielded[k].tok.loc.col = ColOf(yielded[k].at)

(***************************************************************************)
(* C4                                                                      *)
(***************************************************************************)
\* C4: tokenizing never crashes: in every reachable tokenizer state the
\* usize subtractions of the next call of next (col - literal.len(), then
\* loc.col -= 1) do not go below zero, and no call has panicked.
C4_NoUnderflow ==
    /\ ~panicked
    /\ ~lexer_next(TheLexer).panic

(***************************************************************************)
(* C5                                                                      *)
(***************************************************************************)
\* C5: tokenizing "1.2.3" yields Illegal "1.2.", then Int "3", then EOF.
C5_SecondPointIsConsumed ==
    (src = Src_1_2_3 /\ complete) =>
        /\ YieldedTypes = <<"Illegal", "Int", "EOF">>
        /\ YieldedLiterals = << <<"1", ".", "2", ".">>, <<"3">>, <<>> >>

(***************************************************************************)
(* C6                                                                      *)
(***************************************************************************)
\* the identifier values and the error messages of the Program so far
StatementIdents == [k \in 1..Len(statements) |-> statements[k].identifier.value]
ErrorMessages == [k \in 1..Len(errors) |-> errors[k].message]
ErrorLocs == [k \in 1..Len(errors) |-> errors[k].loc]

\* parse has returned the Program of "let = 5;"
C6_Witness == driver = "parser" /\ src = Src_let_eq_5 /\ pc = "done"

\* C6 as stated: parsing "let = 5;" yields zero statements and exactly one
\* error, located at the '=' (line 1, column 4), whose message names
\* Identifier as the expected kind.
C6_ExactlyOneError ==
    C6_Witness =>
        /\ statements = <<>>
        /\ Len(errors) = 1
        /\ errors[1].loc = << [line |-> 1, col |-> 4] >>
        /\ errors[1].message[2] = "Identifier"

\* C6 as amended: parsing "let = 5;" yields zero statements and three
\* errors; the first is located at the '=' (line 1, column 4) and names
\* Identifier as the expected kind, and since the parse resumes right after
\* the '=', the `5` and the `;` each raise an "unexpected token" error.
C6_ThreeErrors ==
    C6_Witness =>
        /\ statements = <<>>
        /\ ErrorMessages = << <<"expected a '", "Identifier", "' token but got '", "Assign", "'">>,
                              <<"unexpected token: ", "Int">>,
                              <<"unexpected token: ", "SemiColon">> >>
        /\ ErrorLocs = << << [line |-> 1, col |-> 4] >>,
                          << [line |-> 1, col |-> 6] >>,
                          << [line |-> 1, col |-> 7] >> >>

(***************************************************************************)
(* C7                                                                      *)
(***************************************************************************)
\* the sequences of at most MaxFrags well-formed statements
GoodSeqs == UNION {[1..n -> GoodStatements] : n \in 0..MaxFrags}

\* C7: for every source made of N >= 0 well-formed statements, parse
\* returns exactly N LetStatements and zero errors, the i-th with the i-th
\* statement's identifier text.
C7_WellFormedStatementsParse ==
    (driver = "parser" /\ pc # "new") =>
        \A gs \in GoodSeqs :
            src = Concat([k \in 1..Len(gs) |-> gs[k].text]) =>
                /\ ~panicked
                /\ errors = <<>>
                /\ pc = "done" => StatementIdents = [k \in 1..Len(gs) |-> gs[k].ident]

(***************************************************************************)
(* C8                                                                      *)
(***************************************************************************)
\* the parser has called next twice after the end-of-input token
C8_Witness == complete /\ exhausted >= 2 /\ Len(yielded) >= 2

\* C8: the end-of-input token is yielded once and is the last item: no
\* item follows it, next returns None only after it, and from then on
\* every call returns None and `complete` stays true.
C8_EOFIsLastAndPermanent ==
    /\ [](\A k \in 1..Len(yielded) : yielded[k].tok.typ = "EOF" => k = Len(yielded))
    /\ [](complete <=> (yielded # <<>> /\ yielded[Len(yielded)].tok.typ = "EOF"))
    /\ [](exhausted > 0 => complete)
    /\ [][complete => (complete' /\ yielded' = yielded)]_vars

(***************************************************************************)
(* C9                                                                      *)
(***************************************************************************)
IsPrefix(a, b) == Len(a) <= Len(b) /\ \A k \in 1..Len(a) : a[k] = b[k]

\* the sequences of at most MaxFrags statements that end in ';', well-formed
\* or not
StatementSeqs == UNION {[1..n -> GoodStatements \cup BadStatements] : n \in 0..MaxFrags}

RECURSIVE IdentsOf(_)
\* the identifiers of the well-formed statements of ss, in order
IdentsOf(ss) ==
    IF ss = <<>> THEN <<>>
    ELSE (IF Head(ss) \in GoodStatements THEN <<Head(ss).ident>> ELSE <<>>)
         \o IdentsOf(Tail(ss))

RECURSIVE MessagesOf(_)
\* the messages of the errors the failing statements of ss raise, in order
MessagesOf(ss) ==
    IF ss = <<>> THEN <<>>
    ELSE (IF Head(ss) \in BadStatements THEN Head(ss).messages ELSE <<>>)
         \o MessagesOf(Tail(ss))

\* parse has returned the Program of a text with a failing statement
\* between two well-formed ones
C9_Witness ==
    /\ driver = "parser"
    /\ pc = "done"
    /\ src = Src_good_bad_good
    /\ Len(statements) = 2
    /\ Len(errors) = 2

\* C9: a failing statement does not abort the parse: a step only appends,
\* one entry to one of the two lists, and after an error the loop goes on;
\* the Program returned for statements that end in ';' holds every
\* well-formed one in source order and every error in the order raised.
C9_FailingStatementDoesNotAbort ==
    /\ [][/\ IsPrefix(statements, statements')
          /\ IsPrefix(errors, errors')
          /\ Len(statements') + Len(errors') <= Len(statements) + Len(errors) + 1
          /\ errors' # errors => pc' = "loop"]_vars
    /\ []((driver = "parser" /\ pc = "done") =>
            \A ss \in StatementSeqs :
                src = Concat([k \in 1..Len(ss) |-> ss[k].text]) =>
                    /\ StatementIdents = IdentsOf(ss)
                    /\ ErrorMessages = MessagesOf(ss))
    /\ []((driver = "parser" /\ pc = "done" /\ src = Src_good_bad_good) =>
            /\ StatementIdents = << <<"x">>, <<"y">> >>
            /\ ErrorMessages = << <<"expected a '", "Assign", "' token but got '", "Int", "'">>,
                                  <<"unexpected token: ", "SemiColon">> >>
            /\ statements[1].token.loc = [line |-> 1, col |-> 0]
            /\ statements[2].token.loc = [line |-> 1, col |-> 18]
            /\ ErrorLocs = << << [line |-> 1, col |-> 16] >>, << [line |-> 1, col |-> 17] >> >>)

(***************************************************************************)
(* C10                                                                     *)
(***************************************************************************)
\* the character at index i of src, '\0' past the end
CharAt(i) == IF i <= Len(src) THEN src[i] ELSE NUL

OperatorChars == {"=", "!", ">", "<"}

\* the kinds the claim names for c followed by '=' and for c alone
DoubleKind(c) ==
    CASE c = "=" -> "EqualEqual" [] c = "!" -> "NotEqual"
      [] c = ">" -> "GreaterEqual" [] c = "<" -> "LessEqual"

SingleKind(c) ==
    CASE c = "=" -> "Assign" [] c = "!" -> "Not"
      [] c = ">" -> "Greater" [] c = "<" -> "Less"

\* a scan has ended that yielded a two-character operator, and a
\* one-character operator that the end of the input follows
C10_Witness ==
    /\ complete
    /\ \E k \in 1..Len(yielded) : yielded[k].tok.typ = "NotEqual"
    /\ \E k \in 1..Len(yielded) : yielded[k].tok.typ = "Less" /\ yielded[k].at = Len(src)

\* C10: a token that starts at '=', '!', '>' or '<' is the two-character
\* operator with the two-character literal when '=' follows, and else the
\* one-character operator; right after the token is yielded the current
\* character is the one after the literal, so the character that follows a
\* one-character operator is not consumed; "==" is one EqualEqual.
C10_TwoCharacterOperators ==
    /\ \A k \in 1..Len(yielded) :
          LET y == yielded[k]
              c == CharAt(y.at)
          IN  (y.tok.typ # "EOF" /\ c \in OperatorChars) =>
                /\ IF CharAt(y.at + 1) = "="
                   THEN y.tok.typ = DoubleKind(c) /\ y.tok.literal = <<c, "=">>
                   ELSE y.tok.typ = SingleKind(c) /\ y.tok.literal = <<c>>
                /\ k = Len(yielded) =>
                      /\ curr = CharAt(y.at + Len(y.tok.literal))
                      /\ Len(iter) = IF y.at + Len(y.tok.literal) <= Len(src)
                                     THEN Len(src) - (y.at + Len(y.tok.literal))
                                     ELSE 0
    /\ (src = Src_EqEq /\ complete) => YieldedTypes = <<"EqualEqual", "EOF">>

(***************************************************************************)
(* C11                                                                     *)
(***************************************************************************)
\* the character at index j of src is part of a `//` comment: a pair of
\* slashes starts at or before j on the same line
InComment(j) ==
    \E i \in 1..j :
        /\ src[i] = "/"
        /\ CharAt(i + 1) = "/"
        /\ \A k \in i..j : src[k] # "\n"

\* the index right after the literal of the item before the k-th one
EndOfPrevious(k) ==
    IF k = 1 THEN 1
    ELSE yielded[k - 1].at + Len(yielded[k - 1].tok.literal)

\* the scan of the text with two comments has ended
C11_Witness ==
    /\ src = Src_comments
    /\ complete
    /\ exhausted > 0
    /\ YieldedTypes = <<"Identifier", "Assign", "EOF">>

\* C11: comments are never emitted as tokens: no token starts inside a
\* comment, what lies between two tokens (and between the last token and
\* the end-of-input token) is whitespace and comments only, so the token
\* after a comment is the first token after its line; and when the rest of
\* the text is a comment without a line feed, the call returns the
\* end-of-input token, which is then the only one yielded.
C11_CommentsAreSkipped ==
    /\ \A k \in 1..Len(yielded) :
          /\ yielded[k].tok.typ # "EOF" => ~InComment(yielded[k].at)
          /\ \A j \in EndOfPrevious(k)..(IF yielded[k].tok.typ = "EOF"
                                         THEN Len(src) ELSE yielded[k].at - 1) :
                is_ascii_whitespace(src[j]) \/ InComment(j)
    /\ LET l == skip_whitespace(TheLexer)
           i == Len(src) - Len(l.iter)
       IN  (/\ src # <<>> /\ ~complete /\ ~panicked
            /\ i \in 1..Len(src) /\ l.curr = src[i]
            /\ InComment(i)
            /\ \A j \in 1..Len(l.iter) : l.iter[j] # "\n") =>
                /\ lexer_next(TheLexer).tok.typ = "EOF"
                /\ lexer_next(TheLexer).l.complete
    /\ (complete /\ src # <<>> /\ InComment(Len(src))) =>
          /\ yielded[Len(yielded)].tok.typ = "EOF"
          /\ \A k \in 1..(Len(yielded) - 1) :
                /\ yielded[k].tok.typ # "EOF"
                /\ ~InComment(yielded[k].at)

(***************************************************************************)
(* C12                                                                     *)
(***************************************************************************)
\* parse has returned the Program of the let-statement without a ';'
C12_Witness ==
    /\ driver = "parser" /\ src = Src_let_unfinished /\ pc = "done"
    /\ Len(errors) = 1 /\ errors[1].loc = <<>>

\* C12 as stated: the error of a let-statement that runs into the end of
\* the input has the message "unexpected end of input" and no location, it
\* is the only error of "let x = 5 ", and every error without a location
\* has that message.
C12_LowercaseMessage ==
    /\ \A k \in 1..Len(errors) :
          errors[k].loc = <<>> <=> errors[k].message = <<"unexpected end of input">>
    /\ (driver = "parser" /\ src = Src_let_unfinished /\ pc = "done") =>
          /\ statements = <<>>
          /\ ErrorMessages = << <<"unexpected end of input">> >>
          /\ ErrorLocs = << <<>> >>

\* C12, amended: the message is "Unexpected end of input". An error has no
\* location exactly when it has that message; it is raised only by the
\* skip loop of a let-statement, after the end-of-input token was consumed
\* and the Lexer returned None; it is then the last error and the next
\* turn of parse returns with the Program unchanged. "let x = 5 " gives
\* that one error and no statement. Every other error is raised on the
\* token consumed in the same step, carries that token's location and
\* names its kind.
C12_OnlyEndOfInputHasNoLocation ==
    /\ [](\A k \in 1..Len(errors) :
            /\ errors[k].loc = <<>> <=> errors[k].message = <<"Unexpected end of input">>
            /\ errors[k].loc = <<>> =>
                  /\ k = Len(errors)
                  /\ pc \in {"loop", "done"}
                  /\ complete /\ exhausted > 0
                  /\ consumed # <<>> /\ consumed[Len(consumed)].typ = "EOF")
    /\ []((driver = "parser" /\ src = Src_let_unfinished /\ pc = "done") =>
            /\ statements = <<>>
            /\ ErrorMessages = << <<"Unexpected end of input">> >>
            /\ ErrorLocs = << <<>> >>)
    /\ [][Len(errors') # Len(errors) =>
            /\ Len(errors') = Len(errors) + 1
            /\ statements' = statements
            /\ LET e == errors'[Len(errors')]
               IN  IF consumed' = consumed
                   THEN /\ e.loc = <<>>
                        /\ pc = "let_skip"
                   ELSE LET tok == consumed'[Len(consumed')]
                        IN  /\ Len(consumed') = Len(consumed) + 1
                            /\ e.loc = <<tok.loc>>
                            /\ \/ /\ pc = "statement"
                                  /\ tok.typ # "Let"
                                  /\ e.message = <<"unexpected token: ", tok.typ>>
                               \/ /\ pc = "let_identifier"
                                  /\ tok.typ # "Identifier"
                                  /\ e.message = <<"expected a '", "Identifier",
                                                   "' token but got '", tok.typ, "'">>
                               \/ /\ pc = "let_assign"
                                  /\ tok.typ # "Assign"
                                  /\ e.message = <<"expected a '", "Assign",
                                                   "' token but got '", tok.typ, "'">>]_vars
    /\ [][(pc = "loop" /\ errors # <<>> /\ errors[Len(errors)].loc = <<>>) =>
            (pc' = "done" /\ statements' = statements /\ errors' = errors)]_vars

(***************************************************************************)
(* C13                                                                     *)
(***************************************************************************)
RECURSIVE Stripped(_)
\* src from index i on, without its whitespace and its comments
Stripped(i) ==
    IF i > Len(src) THEN <<>>
    ELSE IF is_ascii_whitespace(src[i]) \/ InComment(i) THEN Stripped(i + 1)
    ELSE <<src[i]>> \o Stripped(i + 1)

\* C13: once the scan has ended, the literals of the yielded tokens,
\* concatenated in order, are the source text without its whitespace and
\* comments: no character is dropped and none is in two tokens.
C13_LiteralsReconstructSource ==
    complete => Concat(YieldedLiterals) = Stripped(1)

(***************************************************************************)
(* C14                                                                     *)
(***************************************************************************)
\* parse has returned the Program of "x;": both tokens were rejected, each
\* as the start of a statement
C14_Witness ==
    /\ driver = "parser" /\ src = <<"x", ";">> /\ pc = "done"
    /\ ErrorMessages = << <<"unexpected token: ", "Identifier">>,
                          <<"unexpected token: ", "SemiColon">> >>

\* C14: parse_statement runs on the token parse has peeked, which is not
\* the end-of-input token. When that token is not `let`, the step consumes
\* it and nothing else (the Lexer is not called), adds the one error
\* "unexpected token: <kind>" with the token's location, adds no statement
\* and goes back to the head of the loop; the token the loop peeks next is
\* the one the next parse_statement consumes first.
C14_UnexpectedTokenIsOneError ==
    /\ [](pc = "statement" => (peeked # <<>> /\ peeked[1] # None /\ peeked[1].typ # "EOF"))
    /\ [][(pc = "statement" /\ peeked[1].typ # "Let") =>
            /\ consumed' = Append(consumed, peeked[1])
            /\ errors' = Append(errors,
                            [message |-> <<"unexpected token: ", peeked[1].typ>>,
                             loc |-> <<peeked[1].loc>>])
            /\ statements' = statements
            /\ yielded' = yielded /\ exhausted' = exhausted /\ lexvars' = lexvars
            /\ peeked' = <<>>
            /\ pc' = "loop"]_vars
    /\ [][(pc = "loop" /\ pc' = "statement") =>
            /\ consumed' = consumed
            /\ peeked' # <<>>
            /\ yielded' # <<>> /\ peeked' = <<yielded'[Len(yielded')].tok>>]_vars
    /\ [][pc = "statement" =>
            (Len(consumed') = Len(consumed) + 1 /\ consumed'[Len(consumed')] = peeked[1])]_vars

(***************************************************************************)
(* C15                                                                     *)
(***************************************************************************)
ConsumedTypes == [k \in 1..Len(consumed) |-> consumed[k].typ]

\* parse has returned the Program of "let x = 5 let y = 10;"
C15_Witness ==
    /\ driver = "parser" /\ src = Src_no_semi /\ pc = "done"
    /\ Len(statements) = 1

\* C15: in the skip loop after `let IDENT =` every consumed token that is
\* not a ';' is discarded, whatever its kind (`let`, Illegal and the
\* end-of-input token too): no statement and no error is added and the
\* loop goes on. The first ';' ends the loop with the LetStatement of the
\* `let` and the identifier the statement began with, and the loop head
\* then peeks the token after that ';'. "let x = 5 let y = 10;" gives one
\* LetStatement, for x, and no error.
C15_SkipsToSemicolon ==
    /\ [][(pc = "let_skip" /\ consumed' # consumed) =>
            LET tok == consumed'[Len(consumed')]
            IN  /\ consumed' = Append(consumed, tok)
                /\ peeked' = <<>>
                /\ errors' = errors
                /\ IF tok.typ = "SemiColon"
                   THEN /\ statements' = Append(statements, LetStatement(start, id))
                        /\ pc' = "loop"
                   ELSE /\ statements' = statements
                        /\ pc' = "let_skip"]_vars
    /\ [](pc = "let_skip" =>
            \E k \in 1..Len(consumed) :
               /\ k + 2 <= Len(consumed)
               /\ consumed[k] = start /\ start.typ = "Let"
               /\ consumed[k + 1] = id /\ id.typ = "Identifier"
               /\ consumed[k + 2].typ = "Assign"
               /\ \A j \in (k + 3)..Len(consumed) : consumed[j].typ # "SemiColon")
    /\ []((driver = "parser" /\ src = Src_no_semi /\ pc = "done") =>
            /\ StatementIdents = << <<"x">> >>
            /\ errors = <<>>
            /\ ConsumedTypes = <<"Let", "Identifier", "Assign", "Int",
                                 "Let", "Identifier", "Assign", "Int", "SemiColon">>)

(***************************************************************************)
(* C16                                                                     *)
(***************************************************************************)
\* the keyword table as the claim states it
KeywordKinds ==
    { <<kw_let, "Let">>, << <<"f", "n">>, "Function">>, << <<"i", "f">>, "If">>,
      << <<"e", "l", "s", "e">>, "Else">>,
      << <<"r", "e", "t", "u", "r", "n">>, "Return">>,
      << <<"t", "r", "u", "e">>, "True">>,
      << <<"f", "a", "l", "s", "e">>, "False">> }

\* the kind the claim gives to a run
KindOfRun(run) ==
    IF \E p \in KeywordKinds : p[1] = run
    THEN (CHOOSE p \in KeywordKinds : p[1] = run)[2]
    ELSE "Identifier"

RunChar(c) == c \in Letters \cup Digits \cup {"_"}

RECURSIVE RunFrom(_)
\* the longest run of alphanumeric or '_' characters of src that starts at i
RunFrom(i) ==
    IF i <= Len(src) /\ RunChar(src[i]) THEN <<src[i]>> \o RunFrom(i + 1) ELSE <<>>

\* a maximal run that does not start with a digit starts at index i,
\* outside a comment
RunStartsAt(i) ==
    /\ i \in 1..Len(src)
    /\ RunChar(src[i]) /\ src[i] \notin Digits
    /\ i = 1 \/ ~RunChar(src[i - 1])
    /\ ~InComment(i)

\* C16: a maximal run of alphanumeric or '_' characters that does not
\* start with a digit becomes one token whose literal is the whole run, a
\* keyword token when the run is one of let, fn, if, else, return, true,
\* false and an Identifier token otherwise: the call made where such a run
\* starts returns that token, and every yielded token that starts at such
\* a run is that token.
C16_RunsBecomeKeywordOrIdentifier ==
    /\ \A k \in 1..Len(yielded) :
          (yielded[k].tok.typ # "EOF" /\ RunStartsAt(yielded[k].at)) =>
             /\ yielded[k].tok.literal = RunFrom(yielded[k].at)
             /\ yielded[k].tok.typ = KindOfRun(RunFrom(yielded[k].at))
    /\ LET l == skip_whitespace(TheLexer)
           i == Len(src) - Len(l.iter)
       IN  (src # <<>> /\ ~complete /\ RunStartsAt(i) /\ l.curr = src[i]) =>
              LET r == lexer_next(TheLexer)
              IN  /\ ~Panics(r)
                  /\ r.tok.literal = RunFrom(i)
                  /\ r.tok.typ = KindOfRun(RunFrom(i))

(***************************************************************************)
(* C17                                                                     *)
(***************************************************************************)
\* the number of '.' in a literal
Points(lit) == Cardinality({j \in 1..Len(lit) : lit[j] = "."})

NumberChar(c) == c \in Digits \cup {"."}

\* C17: an Int literal is a run of digits without a '.', a Float literal
\* is a run of digits and exactly one '.', so no Int or Float literal has
\* two; and where a '.' stands alone (no digit or '.' before or after it)
\* the call returns one Float token with literal ".".
C17_IntAndFloatByPoints ==
    /\ \A k \in 1..Len(yielded) :
          LET tok == yielded[k].tok
          IN  tok.typ \in {"Int", "Float"} =>
                 /\ tok.literal # <<>>
                 /\ \A j \in 1..Len(tok.literal) : NumberChar(tok.literal[j])
                 /\ tok.typ = "Int" <=> Points(tok.literal) = 0
                 /\ tok.typ = "Float" <=> Points(tok.literal) = 1
    /\ LET l == skip_whitespace(TheLexer)
           i == Len(src) - Len(l.iter)
       IN  (/\ src # <<>> /\ ~complete
            /\ i \in 1..Len(src) /\ l.curr = "." /\ src[i] = "."
            /\ ~InComment(i)
            /\ i = 1 \/ ~NumberChar(src[i - 1])
            /\ ~NumberChar(CharAt(i + 1))) =>
              LET r == lexer_next(TheLexer)
              IN  /\ ~Panics(r)
                  /\ r.tok.typ = "Float"
                  /\ r.tok.literal = <<".">>

(***************************************************************************)
(* C18                                                                     *)
(***************************************************************************)
\* the statement under way has consumed its first token
InStatement == pc \in {"let_identifier", "let_assign", "let_skip"}

\* what the Peekable holds back: one token, or nothing
Buffered == IF peeked # <<>> /\ peeked[1] # None THEN 1 ELSE 0

\* parse has returned a Program with a statement and an error, made from
\* more tokens than it has entries
C18_Witness ==
    /\ driver = "parser" /\ pc = "done"
    /\ statements # <<>> /\ errors # <<>>
    /\ Len(statements) + Len(errors) < Len(consumed)

\* C18: the consumed tokens are the yielded ones, in order and once each,
\* up to the one token the lookahead holds back. The head of the loop
\* consumes nothing and adds nothing; the statement it starts consumes a
\* token first, and statements and errors stay as they are until the
\* statement ends, which appends one entry to one of the two. So the
\* entries never outnumber the consumed tokens.
C18_OneEntryPerIteration ==
    /\ [](driver = "parser" =>
            /\ Len(consumed) + Buffered = Len(yielded)
            /\ \A k \in 1..Len(consumed) : consumed[k] = yielded[k].tok
            /\ Len(statements) + Len(errors) + (IF InStatement THEN 1 ELSE 0)
                  <= Len(consumed))
    /\ [][pc = "loop" => UNCHANGED <<statements, errors, consumed>>]_vars
    /\ [][pc = "statement" => Len(consumed') = Len(consumed) + 1]_vars
    /\ [][(pc = "statement" \/ InStatement) =>
            /\ Len(consumed') >= Len(consumed)
            /\ IF pc' = "loop"
               THEN \/ /\ Len(statements') = Len(statements) + 1
                       /\ SubSeq(statements', 1, Len(statements)) = statements
                       /\ errors' = errors
                    \/ /\ Len(errors') = Len(errors) + 1
                       /\ SubSeq(errors', 1, Len(errors)) = errors
                       /\ statements' = statements
               ELSE UNCHANGED <<statements, errors>>]_vars

====
